---- MODULE Spec2Model ----
(***************************************************************************)
(* DepthwiseConv1D (src/dwconv1d/depthwiseconv1d.py): a Keras layer that   *)
(* convolves every input channel with its own filters.  The model keeps    *)
(* one layer instance, the tensor its caller holds, and the outcome of the *)
(* last method invoked on the layer.                                       *)
(*                                                                         *)
(* Tensors are nested sequences (1-based); Python indices are 0-based and  *)
(* are converted where the code indexes.  A method outcome is a record     *)
(* [kind |-> "return" | "raise", value |-> ...].                           *)
(***************************************************************************)
EXTENDS Integers, Sequences, FiniteSets, TLC

\* ------------------------------------------------------------------ bounds
MaxK == 3
MaxS == 2
MaxM == 2
MaxC == 2
MaxLen == 3
MaxBuilds == 2

\* ----------------------------------------------------------- Python values
Return(v) == [kind |-> "return", value |-> v]
Raise(e) == [kind |-> "raise", value |-> e]

\* An attribute of the instance: never assigned, assigned None, or a value.
Unset == [attr |-> "unset"]
None == [attr |-> "none"]
Value(v) == [attr |-> "value", val |-> v]

\* conv_utils.normalize_tuple in Conv1D.__init__: kernel_size and strides are
\* stored as 1-tuples (the code reads self.kernel_size[0], self.strides * 2).
PyInt(n) == [py |-> "int", val |-> n]
PyTuple(s) == [py |-> "tuple", items |-> s]

\* Python's binary - : defined on two ints, TypeError on a tuple operand.
PySub(a, b) ==
    IF a.py = "int" /\ b.py = "int" THEN Return(PyInt(a.val - b.val))
    ELSE Raise("TypeError")

\* seq[i] with a Python index (0-based, negative from the end).
PyIndex(seq, i) == IF i < 0 THEN seq[Len(seq) + 1 + i] ELSE seq[i + 1]

RECURSIVE SumSeq(_)
SumSeq(s) == IF s = <<>> THEN 0 ELSE Head(s) + SumSeq(Tail(s))

RECURSIVE Repeat(_, _)
\* s concatenated n times (tf.tile along one axis).
Repeat(s, n) == IF n <= 0 THEN <<>> ELSE s \o Repeat(s, n - 1)

Max(a, b) == IF a >= b THEN a ELSE b

\* C++ integer division (truncation toward zero), b > 0.
TruncDiv(a, b) == IF a >= 0 THEN a \div b ELSE -((-a) \div b)

\* ------------------------------------------------------------- tensor ops
Shape3(x) == <<Len(x), Len(x[1]), Len(x[1][1])>>

\* array_ops.pad of a rank-3 tensor with zeros; pads = <<<<b0,b1>>,<<r0,r1>>,<<c0,c1>>>>.
Pad3(x, pads) ==
    LET n1 == Len(x)
        n2 == Len(x[1])
        n3 == Len(x[1][1])
    IN  [i \in 1..(pads[1][1] + n1 + pads[1][2]) |->
          [j \in 1..(pads[2][1] + n2 + pads[2][2]) |->
            [k \in 1..(pads[3][1] + n3 + pads[3][2]) |->
               LET ii == i - pads[1][1]
                   jj == j - pads[2][1]
                   kk == k - pads[3][1]
               IN  IF ii \in 1..n1 /\ jj \in 1..n2 /\ kk \in 1..n3
                   THEN x[ii][jj][kk] ELSE 0]]]

\* array_ops.expand_dims of a rank-3 tensor at axis 0, 1 or 2.
ExpandDims3(x, axis) ==
    IF axis = 0 THEN <<x>>
    ELSE IF axis = 1 THEN [i \in 1..Len(x) |-> <<x[i]>>]
    ELSE [i \in 1..Len(x) |-> [j \in 1..Len(x[i]) |-> <<x[i][j]>>]]

\* array_ops.squeeze of a rank-4 tensor at axis 1 or 2 (a dimension of size 1).
Squeeze4(x, axis) ==
    IF axis = 1 THEN [i \in 1..Len(x) |-> x[i][1]]
    ELSE [i \in 1..Len(x) |-> [j \in 1..Len(x[i]) |-> x[i][j][1]]]

\* tf.tile(kernel, (1, reps, 1)): the channel axis repeated reps times.
TileKernel(kernel, reps) == [k \in 1..Len(kernel) |-> Repeat(kernel[k], reps)]

\* A tiling slip: every entry repeated in place (B0 B0 B1 B1) instead of the
\* whole vector repeated (B0 B1 B0 B1).
TileBiasElementwise(b, reps) ==
    IF b.attr # "value" THEN Raise("ValueError")
    ELSE Return([i \in 1..(Len(b.val.value) * reps) |->
                    b.val.value[((i - 1) \div reps) + 1]])

\* tf.tile(self.bias, (reps,)) on the attribute b: a None argument cannot be
\* converted to a tensor.
TileBias(b, reps) ==
    IF b.attr # "value" THEN Raise("ValueError")
    ELSE Return(Repeat(b.val.value, reps))

\* ------------------------------------------------- nn.depthwise_conv2d
\* Output extent of one spatial dimension (TensorFlow's windowed output size):
\* VALID keeps only whole windows, SAME covers ceil(in / stride) positions.
ConvOutputSize(in, f, s, padding) ==
    IF padding = "VALID" THEN TruncDiv(in - f + s, s)
    ELSE (in + s - 1) \div s

\* Zeros put before the first element: none for VALID; for SAME half of the
\* padding needed, rounded down (the odd element goes to the end).
ConvPadBefore(in, f, s, padding) ==
    IF padding = "VALID" THEN 0
    ELSE Max((ConvOutputSize(in, f, s, padding) - 1) * s + f - in, 0) \div 2

\* A channel-mixing slip: every output channel reads input channel 1.
FilterChannelFirst(ch, M) == 1

\* Output channel ch (1-based) reads input channel FilterChannel and filter
\* column FilterColumn: output[..., k * M + q] comes from input channel k.
FilterChannel(ch, M) == ((ch - 1) \div M) + 1
FilterColumn(ch, M) == ((ch - 1) % M) + 1

\* nn.depthwise_conv2d(input, filter, strides, padding, data_format) on a
\* rank-4 input (NHWC or NCHW) and a filter [fh][fw][in_channels][multiplier].
\* No kernel flip: window element (di, dj) multiplies filter[di][dj].
depthwise_conv2d(input, filter, strides, padding, data_format) ==
    LET nhwc == data_format = "NHWC"
        B == Len(input)
        H == IF nhwc THEN Len(input[1]) ELSE Len(input[1][1])
        W == IF nhwc THEN Len(input[1][1]) ELSE Len(input[1][1][1])
        C == IF nhwc THEN Len(input[1][1][1]) ELSE Len(input[1])
        sh == IF nhwc THEN strides[2] ELSE strides[3]
        sw == IF nhwc THEN strides[3] ELSE strides[4]
        fh == Len(filter)
        fw == Len(filter[1])
        fc == Len(filter[1][1])
        M == Len(filter[1][1][1])
        oh == ConvOutputSize(H, fh, sh, padding)
        ow == ConvOutputSize(W, fw, sw, padding)
        pt == ConvPadBefore(H, fh, sh, padding)
        pl == ConvPadBefore(W, fw, sw, padding)
        At(b, h, w, c) ==
            IF h \in 1..H /\ w \in 1..W
            THEN (IF nhwc THEN input[b][h][w][c] ELSE input[b][c][h][w])
            ELSE 0
        Cell(b, i, j, ch) ==
            LET k == FilterChannel(ch, M)
                q == FilterColumn(ch, M)
            IN  SumSeq([di \in 1..fh |->
                  SumSeq([dj \in 1..fw |->
                     At(b, (i - 1) * sh + di - pt, (j - 1) * sw + dj - pl, k)
                       * filter[di][dj][k][q]])])
    IN  IF fc # C \/ oh < 0 \/ ow < 0 THEN Raise("ValueError")
        ELSE IF nhwc
        THEN Return([b \in 1..B |-> [i \in 1..oh |-> [j \in 1..ow |->
                       [ch \in 1..(C * M) |-> Cell(b, i, j, ch)]]]])
        ELSE Return([b \in 1..B |-> [ch \in 1..(C * M) |-> [i \in 1..oh |->
                       [j \in 1..ow |-> Cell(b, i, j, ch)]]]])

\* backend.bias_add on a rank-3 tensor: the bias runs along the channel axis
\* (last for channels_last, axis 1 for channels_first).
bias_add(x, b, data_format) ==
    IF data_format = "channels_last"
    THEN [i \in 1..Len(x) |-> [t \in 1..Len(x[i]) |->
            [ch \in 1..Len(x[i][t]) |-> x[i][t][ch] + b[ch]]]]
    ELSE [i \in 1..Len(x) |-> [ch \in 1..Len(x[i]) |->
            [t \in 1..Len(x[i][ch]) |-> x[i][ch][t] + b[ch]]]]

\* conv_utils.convert_data_format(data_format, ndim=4).
convert_data_format(data_format) ==
    IF data_format = "channels_last" THEN "NHWC" ELSE "NCHW"

\* An activation handle applied elementwise to a rank-3 tensor.
ApplyActivation(act, x) ==
    [i \in 1..Len(x) |-> [j \in 1..Len(x[i]) |-> [k \in 1..Len(x[i][j]) |->
        IF act = "relu" THEN Max(x[i][j][k], 0) ELSE x[i][j][k]]]]

\* ------------------------------------------------------------ the layer
VARIABLES
    config,            \* the attributes __init__ sets (immutable afterwards)
    built,             \* self.built
    channels,          \* self.channels
    depthwise_kernel,  \* self.depthwise_kernel
    bias,              \* self.bias
    weights,           \* the variables add_weight has created, in order
    inputs,            \* the tensor the caller holds, in the layer's data_format
    result             \* what the last method invoked did

vars == <<config, built, channels, depthwise_kernel, bias, weights, inputs, result>>

Paddings == {"valid", "same", "causal"}
DataFormats == {"channels_last", "channels_first"}

\* conv_utils.normalize_tuple(value, 1, name): an int becomes a 1-tuple.
normalize_tuple(v) == IF v.py = "tuple" THEN v ELSE PyTuple(<<v.val>>)

\* DepthwiseConv1D.__init__(kernel_size, strides, padding, common_kernel,
\* depth_multiplier, data_format, activation, use_bias, ...): the instance
\* attributes.  Conv1D.__init__ normalizes kernel_size, strides and
\* dilation_rate (left at its default) to 1-tuples and receives filters=None.
Construct(kernel_size, strides, padding, common_kernel, depth_multiplier, data_format, activation, use_bias) ==
    [ filters |-> "None",
      kernel_size |-> normalize_tuple(kernel_size),
      strides |-> normalize_tuple(strides),
      padding |-> padding,
      data_format |-> data_format,
      dilation_rate |-> PyTuple(<<1>>),
      activation |-> activation,
      use_bias |-> use_bias,
      common_kernel |-> common_kernel,
      depth_multiplier |-> depth_multiplier,
      depthwise_initializer |-> "ramp",
      bias_initializer |-> "ramp",
      depthwise_regularizer |-> "None",
      bias_regularizer |-> "None",
      activity_regularizer |-> "None",
      depthwise_constraint |-> "None",
      bias_constraint |-> "None" ]

\* The pluggable initializers (opaque to the layer), instantiated so that no
\* two entries of a weight are equal and both signs occur.
InitKernel(shape) ==
    [k \in 1..shape[1] |-> [c \in 1..shape[2] |-> [m \in 1..shape[3] |->
        (k + 3 * c + 11 * m) * (IF (k + c) % 2 = 0 THEN -1 ELSE 1)]]]

InitBias(shape) == [i \in 1..shape[1] |-> 100 * i]

\* self._get_channel_axis()
get_channel_axis(cfg) == IF cfg.data_format = "channels_first" THEN 1 ELSE -1

\* Layer.add_weight: a new variable, appended to the layer's weights.
add_weight(name, value, ws) ==
    Append(ws, [name |-> name, id |-> Len(ws) + 1, value |-> value])

Builds == Cardinality({i \in 1..Len(weights) : weights[i].name = "depthwise_kernel"})

\* build(input_shape); a dimension of -1 stands for None (unknown).
Build(input_shape) ==
    /\ Builds < MaxBuilds
    /\ IF Len(input_shape) # 3
       THEN /\ result' = [op |-> "build", out |-> Raise("ValueError")]
            /\ UNCHANGED <<built, channels, depthwise_kernel, bias, weights>>
       ELSE LET channel_axis == get_channel_axis(config)
            IN
            IF PyIndex(input_shape, channel_axis) = -1
            THEN /\ result' = [op |-> "build", out |-> Raise("ValueError")]
                 /\ UNCHANGED <<built, channels, depthwise_kernel, bias, weights>>
            ELSE LET input_dim == PyIndex(input_shape, channel_axis)
                     kernel_dim == IF config.common_kernel THEN 1 ELSE input_dim
                     depthwise_kernel_shape ==
                         <<PyIndex(config.kernel_size.items, 0), kernel_dim,
                           config.depth_multiplier>>
                     w1 == add_weight("depthwise_kernel",
                                      InitKernel(depthwise_kernel_shape), weights)
                     w2 == add_weight("bias",
                                      InitBias(<<kernel_dim * config.depth_multiplier>>), w1)
                 IN
                 /\ channels' = Value(input_dim)
                 /\ depthwise_kernel' = Value(w1[Len(w1)])
                 /\ IF config.use_bias
                    THEN bias' = Value(w2[Len(w2)]) /\ weights' = w2
                    ELSE bias' = None /\ weights' = w1
                 /\ built' = TRUE
                 /\ result' = [op |-> "build", out |-> Return("None")]
    /\ UNCHANGED <<config, inputs>>

\* Padding slips: the zeros put after the last position instead of before the
\* first, and one zero too many.
compute_causal_padding_right(cfg) ==
    LET left_pad == PyIndex(cfg.dilation_rate.items, 0)
                      * (PyIndex(cfg.kernel_size.items, 0) - 1)
    IN  IF cfg.data_format = "channels_last"
        THEN <<<<0, 0>>, <<0, left_pad>>, <<0, 0>>>>
        ELSE <<<<0, 0>>, <<0, 0>>, <<0, left_pad>>>>

compute_causal_padding_full(cfg) ==
    LET left_pad == PyIndex(cfg.dilation_rate.items, 0)
                      * PyIndex(cfg.kernel_size.items, 0)
    IN  IF cfg.data_format = "channels_last"
        THEN <<<<0, 0>>, <<left_pad, 0>>, <<0, 0>>>>
        ELSE <<<<0, 0>>, <<0, 0>>, <<left_pad, 0>>>>

\* self._compute_causal_padding(): (kernel_size - 1) * dilation zeros before
\* the first position of the length axis, none after it.
compute_causal_padding(cfg) ==
    LET left_pad == PyIndex(cfg.dilation_rate.items, 0)
                      * (PyIndex(cfg.kernel_size.items, 0) - 1)
    IN  IF cfg.data_format = "channels_last"
        THEN <<<<0, 0>>, <<left_pad, 0>>, <<0, 0>>>>
        ELSE <<<<0, 0>>, <<0, 0>>, <<left_pad, 0>>>>

\* The padding handed to depthwise_conv2d (lines 178-186).
op_padding(cfg) == IF cfg.padding = "causal" THEN "VALID"
                   ELSE IF cfg.padding = "same" THEN "SAME" ELSE "VALID"

\* call(inputs) on an instance whose attributes are chan (self.channels),
\* kern (self.depthwise_kernel) and b (self.bias): what it returns or raises.
\* Reading an attribute that was never assigned raises AttributeError.
call(cfg, chan, kern, b, x) ==
    LET x1 == IF cfg.padding = "causal" THEN Pad3(x, compute_causal_padding(cfg)) ELSE x
        S == cfg.strides.items
        strides == IF cfg.data_format = "channels_last"
                   THEN <<1>> \o (S \o S) \o <<1>>
                   ELSE <<1, 1>> \o (S \o S)
        spatial_start_dim == IF cfg.data_format = "channels_last" THEN 1 ELSE 2
        x4 == ExpandDims3(x1, spatial_start_dim)
    IN
    IF kern.attr = "unset" THEN Raise("AttributeError")
    ELSE IF cfg.common_kernel /\ chan.attr = "unset" THEN Raise("AttributeError")
    ELSE IF b.attr = "unset" THEN Raise("AttributeError")
    ELSE
    LET tiled == IF cfg.common_kernel
                 THEN TileBias(b, chan.val)
                 ELSE Return(IF b.attr = "value" THEN b.val.value ELSE <<>>)
    IN
    IF tiled.kind = "raise" THEN tiled
    ELSE
    LET dw_kernel == IF cfg.common_kernel
                     THEN TileKernel(kern.val.value, chan.val)
                     ELSE kern.val.value
        bias_kernel == tiled.value
        conv == depthwise_conv2d(x4, ExpandDims3(dw_kernel, 0), strides,
                                 op_padding(cfg),
                                 convert_data_format(cfg.data_format))
    IN
    IF conv.kind = "raise" THEN conv
    ELSE
    LET squeezed == Squeeze4(conv.value, spatial_start_dim)
        outputs == IF cfg.use_bias
                   THEN bias_add(squeezed, bias_kernel, cfg.data_format)
                   ELSE squeezed
    IN  IF cfg.activation # "None"
        THEN Return(ApplyActivation(cfg.activation, outputs))
        ELSE Return(outputs)

\* A forward that builds an unbuilt instance on the way, as a framework's
\* __call__ wrapper does, instead of failing.
CallBuilding ==
    LET input_dim == PyIndex(Shape3(inputs), get_channel_axis(config))
        kernel_dim == IF config.common_kernel THEN 1 ELSE input_dim
        w1 == add_weight("depthwise_kernel",
                         InitKernel(<<PyIndex(config.kernel_size.items, 0), kernel_dim,
                                      config.depth_multiplier>>), weights)
        w2 == add_weight("bias", InitBias(<<kernel_dim * config.depth_multiplier>>), w1)
        k1 == IF built THEN depthwise_kernel ELSE Value(w1[Len(w1)])
        b1 == IF built THEN bias ELSE Value(w2[Len(w2)])
        c1 == IF built THEN channels ELSE Value(input_dim)
    IN
    /\ built' = TRUE
    /\ channels' = c1
    /\ depthwise_kernel' = k1
    /\ bias' = b1
    /\ weights' = IF built THEN weights ELSE w2
    /\ result' = [op |-> "call", out |-> call(config, c1, k1, b1, inputs)]
    /\ UNCHANGED <<config, inputs>>

\* call(inputs) on the instance: nothing of the instance is assigned.
Call ==
    /\ result' = [op |-> "call",
                  out |-> call(config, channels, depthwise_kernel, bias, inputs)]
    /\ UNCHANGED <<config, built, channels, depthwise_kernel, bias, weights, inputs>>

\* conv_utils.conv_output_length(input_length, filter_size, padding, stride)
\* with dilation = 1: written for int arguments; its first arithmetic step is
\* filter_size - 1.
conv_output_length(input_length, filter_size, padding, stride) ==
    LET fm1 == PySub(filter_size, PyInt(1))
    IN
    IF fm1.kind = "raise" THEN fm1
    ELSE IF stride.py # "int" THEN Raise("TypeError")
    ELSE
    LET dilated_filter_size == filter_size.val + fm1.value.val * (1 - 1)
        output_length == IF padding \in {"same", "causal"} THEN input_length
                         ELSE input_length - dilated_filter_size + 1
    IN  Return((output_length + stride.val - 1) \div stride.val)

\* compute_output_shape(input_shape): self.kernel_size and self.strides are
\* passed on as they are stored.
compute_output_shape(cfg, input_shape) ==
    LET first == cfg.data_format = "channels_first"
        length == IF first THEN PyIndex(input_shape, 2) ELSE PyIndex(input_shape, 1)
        out_filters == (IF first THEN PyIndex(input_shape, 1) ELSE PyIndex(input_shape, 2))
                          * cfg.depth_multiplier
        length_new == conv_output_length(length, cfg.kernel_size, cfg.padding,
                                         cfg.strides)
    IN  IF length_new.kind = "raise" THEN length_new
        ELSE IF first
        THEN Return(<<PyIndex(input_shape, 0), out_filters, length_new.value>>)
        ELSE Return(<<PyIndex(input_shape, 0), length_new.value, out_filters>>)

ComputeOutputShape(input_shape) ==
    /\ result' = [op |-> "compute_output_shape",
                  out |-> compute_output_shape(config, input_shape)]
    /\ UNCHANGED <<config, built, channels, depthwise_kernel, bias, weights, inputs>>

\* The names bound in the module's namespace: its imports (lines 1-12) and the
\* class it defines (line 77).
ModuleGlobals ==
    {"tf", "tensor_shape", "models", "layers", "initializers", "regularizers",
     "constraints", "Conv1D", "InputSpec", "conv_utils", "tf_utils", "backend",
     "array_ops", "nn", "nn_ops", "keras_export", "DepthwiseConv1D"}

\* Conv1D.get_config(): the base class's configuration dictionary.
BaseConfig(cfg) ==
    [key \in {"filters", "kernel_size", "strides", "padding", "data_format",
              "dilation_rate", "activation", "use_bias", "kernel_initializer",
              "bias_initializer", "kernel_regularizer", "bias_regularizer",
              "activity_regularizer", "kernel_constraint", "bias_constraint"} |->
        CASE key = "filters" -> cfg.filters
          [] key = "kernel_size" -> cfg.kernel_size
          [] key = "strides" -> cfg.strides
          [] key = "padding" -> cfg.padding
          [] key = "data_format" -> cfg.data_format
          [] key = "dilation_rate" -> cfg.dilation_rate
          [] key = "activation" -> cfg.activation
          [] key = "use_bias" -> cfg.use_bias
          [] key = "kernel_initializer" -> "glorot_uniform"
          [] key = "bias_initializer" -> cfg.bias_initializer
          [] key = "bias_regularizer" -> cfg.bias_regularizer
          [] key = "activity_regularizer" -> cfg.activity_regularizer
          [] key = "bias_constraint" -> cfg.bias_constraint
          [] OTHER -> "None"]

\* dict.pop(key) and dict[key] = value
DictPop(d, key) == [k \in (DOMAIN d) \ {key} |-> d[k]]
DictSet(d, key, value) == [k \in (DOMAIN d) \cup {key} |-> IF k = key THEN value ELSE d[k]]

\* get_config(): line 218 looks up the global name DepthwiseConv2D.
get_config(cfg) ==
    IF "DepthwiseConv2D" \notin ModuleGlobals THEN Raise("NameError")
    ELSE
    LET c0 == BaseConfig(cfg)
        c1 == DictPop(DictPop(DictPop(DictPop(c0, "filters"), "kernel_initializer"),
                              "kernel_regularizer"), "kernel_constraint")
        c2 == DictSet(c1, "depth_multiplier", cfg.depth_multiplier)
        c3 == DictSet(c2, "depthwise_initializer", cfg.depthwise_initializer)
        c4 == DictSet(c3, "depthwise_regularizer", cfg.depthwise_regularizer)
        c5 == DictSet(c4, "depthwise_constraint", cfg.depthwise_constraint)
    IN  Return(c5)

GetConfig ==
    /\ result' = [op |-> "get_config", out |-> get_config(config)]
    /\ UNCHANGED <<config, built, channels, depthwise_kernel, bias, weights, inputs>>

\* ------------------------------------------------------------ the callers
\* Tensors the caller holds, written as X[b][l][c] and laid out as the
\* layer's data_format asks.
Impulse(L, C, l0, c0) ==
    <<[l \in 1..L |-> [c \in 1..C |-> IF l = l0 /\ c = c0 THEN 1 ELSE 0]]>>

Ramp(L, C) ==
    [b \in 1..2 |-> [l \in 1..L |-> [c \in 1..C |->
        ((b - 1) * L * C + (l - 1) * C + c) * (IF l % 2 = 0 THEN -1 ELSE 1)]]]

Tensors(L, C) == {Ramp(L, C)} \cup {Impulse(L, C, l0, c0) : l0 \in 1..L, c0 \in 1..C}

ToLayout(X, data_format) ==
    IF data_format = "channels_last" THEN X
    ELSE [b \in 1..Len(X) |-> [c \in 1..Len(X[1][1]) |-> [l \in 1..Len(X[1]) |->
            X[b][l][c]]]]

Activations == {"None", "relu"}

\* A constructed layer and an input tensor it accepts (under 'valid' the
\* input holds at least one whole window).
Init ==
    /\ \E K \in 1..MaxK, S \in 1..MaxS, p \in Paddings, ck \in BOOLEAN,
          M \in 1..MaxM, df \in DataFormats, act \in Activations, ub \in BOOLEAN,
          L \in 1..MaxLen, C \in 1..MaxC :
         /\ p = "valid" => L >= K
         /\ config = Construct(PyInt(K), PyInt(S), p, ck, M, df, act, ub)
         /\ \E X \in Tensors(L, C) : inputs = ToLayout(X, df)
    /\ built = FALSE
    /\ channels = Unset
    /\ depthwise_kernel = Unset
    /\ bias = Unset
    /\ weights = <<>>
    /\ result = [op |-> "none", out |-> Return("None")]

Next ==
    \/ Build(Shape3(inputs))
    \/ Call
    \/ ComputeOutputShape(Shape3(inputs))
    \/ GetConfig

\* Every method in any order, build included wherever its cap allows.
Spec == Init /\ [][Next]_vars

\* The framework's use of the layer: build runs once, on the first input's
\* shape, and forward may be invoked before or after it.
ForwardNext ==
    \/ (~built /\ Build(Shape3(inputs)))
    \/ Call

ForwardSpec == Init /\ [][ForwardNext]_vars

\* ------------------------------------------------ what the claims speak of
\* The specification's quantities, written from its formulas with 0-based
\* indices b, t, c, m, k, independently of the operators above.
KernelSize == config.kernel_size.items[1]
Stride == config.strides.items[1]
Multiplier == config.depth_multiplier
ChannelsLast == config.data_format = "channels_last"

Batch(x) == Len(x)
Length(x) == IF ChannelsLast THEN Len(x[1]) ELSE Len(x[1][1])
Channels(x) == IF ChannelsLast THEN Len(x[1][1]) ELSE Len(x[1])

\* x[b, l, c] in the specification's axis order; 0 outside the tensor.
Elem(x, b, l, c) ==
    IF l < 0 \/ l >= Length(x) THEN 0
    ELSE IF ChannelsLast THEN x[b + 1][l + 1][c + 1] ELSE x[b + 1][c + 1][l + 1]

\* new_length of section 4.4.
SpecLength(L) ==
    CASE config.padding = "valid" -> ((L - KernelSize) \div Stride) + 1
      [] config.padding = "causal" -> ((L - 1) \div Stride) + 1
      [] config.padding = "same" -> (L + Stride - 1) \div Stride

\* Zeros in front of the input in input_padded.
SpecPadLeft(L) ==
    CASE config.padding = "valid" -> 0
      [] config.padding = "causal" -> KernelSize - 1
      [] config.padding = "same" ->
           Max((SpecLength(L) - 1) * Stride + KernelSize - L, 0) \div 2

\* The windowed sum of section 4.4 for kernel W and input x.
WindowSum(W, x, b, t, c, m) ==
    SumSeq([kk \in 1..KernelSize |->
        Elem(x, b, t * Stride + (kk - 1) - SpecPadLeft(Length(x)), c)
          * W[kk][IF config.common_kernel THEN 1 ELSE c + 1][m + 1]])

\* An input the operator accepts: under 'valid' at least one whole window.
ValidInput == config.padding = "valid" => Length(inputs) >= KernelSize

Called == result.op = "call"
Returned == result.out.kind = "return"

\* The output has the specification's shape.
HasSpecShape(y) ==
    /\ Batch(y) = Batch(inputs)
    /\ Length(y) = SpecLength(Length(inputs))
    /\ Channels(y) = Channels(inputs) * Multiplier

\* Every output cell is the windowed sum plus the bias term.
IsWindowedSum(y, biasTerm(_, _)) ==
    \A b \in 0..(Batch(y) - 1), t \in 0..(Length(y) - 1),
       c \in 0..(Channels(inputs) - 1), m \in 0..(Multiplier - 1) :
        Elem(y, b, t, c * Multiplier + m) =
            WindowSum(depthwise_kernel.val.value, inputs, b, t, c, m) + biasTerm(c, m)

StoredBias(c, m) ==
    IF ~config.use_bias THEN 0
    ELSE bias.val.value[(IF config.common_kernel THEN m ELSE c * Multiplier + m) + 1]

\* C1: for a built operator forward returns, for every b, c, m and t,
\* output[b, t, c*M + m] = sum_k input_padded[b, t*S + k, c] * kernel[k, c or 0, m]
\* plus bias[c*M + m] when use_bias, in either data format.
C1_ForwardFormula ==
    (built /\ Called /\ ValidInput /\ config.activation = "None") =>
        /\ Returned
        /\ HasSpecShape(result.out.value)
        /\ IsWindowedSum(result.out.value, StoredBias)

\* The same statement wherever the operator holds the bias its configuration
\* asks for or needs none tiled.
ForwardFormulaWithBias ==
    (built /\ Called /\ ValidInput /\ config.activation = "None"
       /\ (config.common_kernel => config.use_bias)) =>
        /\ Returned
        /\ HasSpecShape(result.out.value)
        /\ IsWindowedSum(result.out.value, StoredBias)

\* compute_output_shape's input: the shape of the tensor the caller holds.
ShapeInferred == result.op = "compute_output_shape"

\* C2: for every valid configuration and input shape, shape inference returns
\* the shape of the tensor forward produces for an input of that shape, and
\* does so whether or not the operator has been built.
C2_ShapeAgreement ==
    (ShapeInferred /\ ValidInput) =>
        /\ Returned
        /\ built =>
             LET fwd == call(config, channels, depthwise_kernel, bias, inputs)
             IN  fwd.kind = "return" => result.out.value = Shape3(fwd.value)

\* Weight values other than the stored ones, for the two-run claims.
Perturbations == {1, -3}

\* The stored weights with d added to every entry that belongs to input
\* channel c: kernel[:, c, :] and bias[c*M .. (c+1)*M - 1].
PerturbKernel(c, d) ==
    Value([depthwise_kernel.val EXCEPT !.value =
        [k \in 1..Len(@) |-> [cc \in 1..Len(@[k]) |-> [m \in 1..Len(@[k][cc]) |->
            IF cc = c + 1 THEN @[k][cc][m] + d ELSE @[k][cc][m]]]]])

PerturbBias(c, d) ==
    IF bias.attr # "value" THEN bias
    ELSE Value([bias.val EXCEPT !.value =
        [i \in 1..Len(@) |->
            IF (i - 1) \div Multiplier = c THEN @[i] + d ELSE @[i]]])

SameCell(y1, y2, b, t, ch) == Elem(y1, b, t, ch) = Elem(y2, b, t, ch)

AgreeOutsideChannel(y1, y2, c) ==
    /\ Shape3(y1) = Shape3(y2)
    /\ \A b \in 0..(Batch(y1) - 1), t \in 0..(Length(y1) - 1),
          ch \in 0..(Channels(y1) - 1) :
           (ch \div Multiplier # c) => SameCell(y1, y2, b, t, ch)

\* C3: with common_kernel = false, a second forward on the same input with
\* weights that differ only in the slice of input channel c agrees with the
\* first in every output channel outside [c*M, (c+1)*M).
C3_ChannelIndependence ==
    (built /\ ~config.common_kernel /\ Called /\ Returned /\ ValidInput) =>
        \A c \in 0..(Channels(inputs) - 1), d \in Perturbations :
            LET second == call(config, channels, PerturbKernel(c, d),
                               PerturbBias(c, d), inputs)
            IN  /\ second.kind = "return"
                /\ AgreeOutsideChannel(result.out.value, second.value, c)

\* A run of C3 in which the perturbed slice does change the output, next to
\* other channels that must not change.
C3_Witness ==
    /\ built /\ ~config.common_kernel /\ Called /\ Returned
    /\ Channels(inputs) >= 2 /\ Multiplier >= 2 /\ Length(result.out.value) >= 1
    /\ \E d \in Perturbations :
         call(config, channels, PerturbKernel(0, d), PerturbBias(0, d), inputs)
            # result.out

\* W replicated C times along the channel axis, and the bias whose entry
\* c*M + m is B[m].
ReplicatedKernel(W, C) == [k \in 1..Len(W) |-> [c \in 1..C |-> W[k][1]]]
ReplicatedBias(B, C) == [i \in 1..(C * Len(B)) |-> B[((i - 1) % Len(B)) + 1]]

\* C4: an operator with common_kernel = true holding kernel W (K, 1, M) and
\* bias B (M,) gives the output of an operator with common_kernel = false
\* holding W replicated C_in times and the bias B repeated per channel.
C4_CommonKernelEquivalence ==
    (built /\ config.common_kernel /\ config.use_bias /\ Called) =>
        LET C == Channels(inputs)
            separate == call([config EXCEPT !.common_kernel = FALSE], channels,
                  Value([depthwise_kernel.val EXCEPT
                           !.value = ReplicatedKernel(@, C)]),
                  Value([bias.val EXCEPT !.value = ReplicatedBias(@, C)]),
                  inputs)
        IN  result.out = separate

C4_Witness ==
    /\ built /\ config.common_kernel /\ config.use_bias /\ Called /\ Returned
    /\ Channels(inputs) >= 2 /\ Multiplier >= 2 /\ KernelSize >= 2
    /\ Length(result.out.value) >= 1

\* The input with d added at every position greater than p (0-based).
ModifyAfter(x, p, d) ==
    IF ChannelsLast
    THEN [b \in 1..Len(x) |-> [l \in 1..Len(x[b]) |-> [c \in 1..Len(x[b][l]) |->
            IF l - 1 > p THEN x[b][l][c] + d ELSE x[b][l][c]]]]
    ELSE [b \in 1..Len(x) |-> [c \in 1..Len(x[b]) |-> [l \in 1..Len(x[b][c]) |->
            IF l - 1 > p THEN x[b][c][l] + d ELSE x[b][c][l]]]]

\* Output position t is the same in a second forward whose input differs
\* only at positions greater than p(t).
UnchangedAt(p(_)) ==
    \A t \in 0..(Length(result.out.value) - 1), d \in Perturbations :
        LET second == call(config, channels, depthwise_kernel, bias,
                           ModifyAfter(inputs, p(t), d))
        IN  /\ second.kind = "return"
            /\ \A b \in 0..(Batch(inputs) - 1),
                  ch \in 0..(Channels(result.out.value) - 1) :
                   SameCell(result.out.value, second.value, b, t, ch)

SamePosition(t) == t
WindowEnd(t) == t * Stride

\* C5 as stated: under padding = 'causal', for every kernel size and stride,
\* output position t is unchanged when input positions greater than t are
\* modified.
C5_NoLookaheadPastT ==
    (built /\ config.padding = "causal" /\ Called /\ Returned) =>
        UnchangedAt(SamePosition)

\* C5 amended: under padding = 'causal', output position t is unchanged when
\* input positions greater than t * stride are modified (positions greater
\* than t for stride 1).
C5_CausalNoLookahead ==
    (built /\ config.padding = "causal" /\ Called /\ Returned) =>
        UnchangedAt(WindowEnd)

\* A causal run with a window wider than one position and input positions
\* after the first output's window.
C5_Witness ==
    /\ built /\ config.padding = "causal" /\ Called /\ Returned
    /\ KernelSize >= 2 /\ Stride >= 2 /\ Length(inputs) >= 3
    /\ Length(result.out.value) >= 2

\* C6: the forward output has length floor((L - K) / S) + 1 under 'valid'
\* (L >= K), floor((L - 1) / S) + 1 under 'causal', exactly L under 'same'
\* with stride 1, and channels * depth_multiplier channels.
C6_OutputLength ==
    (built /\ Called /\ Returned /\ ValidInput) =>
        LET L == Length(inputs)
            new_length == Length(result.out.value)
        IN  /\ config.padding = "valid" =>
                 new_length = ((L - KernelSize) \div Stride) + 1
            /\ config.padding = "causal" =>
                 new_length = ((L - 1) \div Stride) + 1
            /\ (config.padding = "same" /\ Stride = 1) => new_length = L
            /\ Channels(result.out.value) = Channels(inputs) * Multiplier

C6_Witness ==
    /\ built /\ Called /\ Returned
    /\ config.padding = "causal" /\ Stride >= 2 /\ KernelSize >= 2
    /\ Length(inputs) >= 3 /\ Multiplier >= 2

\* C7: once the operator is built its kernel and bias are the tensors the
\* first build allocated: no later build or forward allocates a weight or
\* replaces depthwise_kernel or bias.
C7_WeightsAllocatedOnce ==
    [][built => (/\ depthwise_kernel' = depthwise_kernel
                 /\ bias' = bias
                 /\ weights' = weights)]_vars

\* C8: forward on an operator that has not been built fails, in every
\* configuration: it raises, returns no tensor, and leaves the operator
\* unbuilt with no weight allocated.
C8_ForwardBeforeBuildFails ==
    [][(~built /\ Call) =>
          (/\ result'.out.kind = "raise"
           /\ ~built'
           /\ weights' = <<>>
           /\ depthwise_kernel' = Unset
           /\ bias' = Unset)]_vars

C8_Witness == ~built /\ Called /\ ~Returned /\ weights = <<>>

\* Layer.from_config(config): the class constructed from the dictionary's
\* entries, absent arguments at their defaults.
FromConfig(d) ==
    Construct(d["kernel_size"], d["strides"], d["padding"],
              IF "common_kernel" \in DOMAIN d THEN d["common_kernel"] ELSE FALSE,
              d["depth_multiplier"], d["data_format"], d["activation"],
              d["use_bias"])

\* C9: get_config returns a configuration with every construction field and
\* without filters, kernel_initializer, kernel_regularizer, kernel_constraint,
\* and an operator constructed from it has the same configuration.
C9_ConfigRoundTrip ==
    result.op = "get_config" =>
        /\ Returned
        /\ {"kernel_size", "strides", "padding", "common_kernel",
            "depth_multiplier", "data_format", "use_bias", "depthwise_initializer",
            "depthwise_regularizer", "depthwise_constraint"}
              \subseteq DOMAIN result.out.value
        /\ {"filters", "kernel_initializer", "kernel_regularizer",
            "kernel_constraint"} \cap DOMAIN result.out.value = {}
        /\ FromConfig(result.out.value) = config

NoBias(c, m) == 0

\* C10: built with use_bias = false the operator holds no bias tensor, and
\* forward returns the windowed sum with a bias term of 0, with or without
\* common_kernel.
C10_ForwardWithoutBias ==
    (built /\ ~config.use_bias /\ Called /\ ValidInput
       /\ config.activation = "None") =>
        /\ bias = None
        /\ Returned
        /\ IsWindowedSum(result.out.value, NoBias)

====
